---- MODULE Spec2Model ----
(***************************************************************************)
(* Transcript-to-structured-output pipeline of the transcript parser       *)
(* plugin (src/main.ts): parseAndOutput, ensureDirectoriesExist, the       *)
(* watch-folder and Parse Transcript triggers, and the settings surface.   *)
(* Text is modelled as a sequence of tokens; a token is one character      *)
(* class or one atomic word of the text.                                   *)
(***************************************************************************)
EXTENDS Integers, Sequences, FiniteSets, TLC

(***************************************************************************)
(* Tokens of text                                                          *)
(***************************************************************************)
\* the triple-backtick marker matched by the regex of main.ts:134
FENCE == "FENCE"
\* the optional language tag of the regex of main.ts:134
JSONTAG == "json"
\* one whitespace character (matched by the regex class s, removed by trim)
WS == " "
\* a line break, as used by join in main.ts:160
NL == "NL"
\* the checkbox prefix "- [ ] " of main.ts:160, one token
BOX == "- [ ] "
\* the double quote delimiting JSON strings
Q == "QUOTE"
\* the two-character escape that stands for a line break inside a JSON string
ESCNL == "ESCNL"

(***************************************************************************)
(* JSON values: tagged records, so that values of different type compare   *)
(***************************************************************************)
JStr(s) == [t |-> "str", s |-> s]
JArr(a) == [t |-> "arr", a |-> a]
\* an object is the sequence of its <<key, value>> members, in order
JObj(m) == [t |-> "obj", m |-> m]
JNull == [t |-> "null"]
\* the value of a missing property
Undefined == [t |-> "undef"]

RECURSIVE Flatten(_)
Flatten(ss) == IF ss = <<>> THEN <<>> ELSE Head(ss) \o Flatten(Tail(ss))

RECURSIVE Join(_, _)
\* Array.prototype.join: the texts of ss separated by sep
Join(ss, sep) ==
  IF ss = <<>> THEN <<>>
  ELSE IF Len(ss) = 1 THEN ss[1]
  ELSE ss[1] \o sep \o Join(Tail(ss), sep)

\* a line break inside a string is written as its escape, and read back
Escape(s) == [i \in 1..Len(s) |-> IF s[i] = NL THEN ESCNL ELSE s[i]]
Unescape(s) == [i \in 1..Len(s) |-> IF s[i] = ESCNL THEN NL ELSE s[i]]

RECURSIVE Stringify(_)
\* JSON.stringify: no whitespace, members in insertion order.  The tokens
\* of a string never include Q (a quote inside a string is written escaped).
Stringify(v) ==
  CASE v.t = "str" -> <<Q>> \o Escape(v.s) \o <<Q>>
    [] v.t = "arr" ->
         <<"[">> \o Join([i \in 1..Len(v.a) |-> Stringify(v.a[i])], <<",">>) \o <<"]">>
    [] v.t = "obj" ->
         <<"{">> \o Join([i \in 1..Len(v.m) |->
                          <<Q, v.m[i][1], Q, ":">> \o Stringify(v.m[i][2])], <<",">>)
                 \o <<"}">>
    [] OTHER -> <<"null">>

(***************************************************************************)
(* JSON.parse: recursive descent over the tokens                           *)
(***************************************************************************)
RECURSIVE SkipWs(_)
SkipWs(t) == IF t # <<>> /\ Head(t) \in {WS, NL} THEN SkipWs(Tail(t)) ELSE t

Fail == [ok |-> FALSE, v |-> JNull, rest |-> <<>>]
Ok(v, rest) == [ok |-> TRUE, v |-> v, rest |-> rest]

\* index of the first occurrence of tok in t at or after position i, else 0
RECURSIVE IndexFrom(_, _, _)
IndexFrom(t, tok, i) ==
  IF i > Len(t) THEN 0
  ELSE IF t[i] = tok THEN i
  ELSE IndexFrom(t, tok, i + 1)

\* a string literal: Q, any tokens but Q and a raw line break, Q
ParseString(t) ==
  IF t = <<>> \/ Head(t) # Q THEN Fail
  ELSE LET j == IndexFrom(t, Q, 2)
       IN  IF j = 0 \/ (\E i \in 2..(j - 1) : t[i] = NL) THEN Fail
           ELSE Ok(JStr(Unescape(SubSeq(t, 2, j - 1))), SubSeq(t, j + 1, Len(t)))

RECURSIVE ParseValue(_)
RECURSIVE ParseElems(_, _)
RECURSIVE ParseMembers(_, _)

\* the elements of an array after "[" or after a ","; acc is what was read
ParseElems(t, acc) ==
  LET r == ParseValue(t)
  IN  IF ~r.ok THEN Fail
      ELSE LET u == SkipWs(r.rest)
           IN  IF u = <<>> THEN Fail
               ELSE IF Head(u) = "," THEN ParseElems(Tail(u), Append(acc, r.v))
               ELSE IF Head(u) = "]" THEN Ok(JArr(Append(acc, r.v)), Tail(u))
               ELSE Fail

\* the members of an object after "{" or after a ","; acc is what was read
ParseMembers(t, acc) ==
  LET k == ParseString(SkipWs(t))
  IN  IF ~k.ok \/ Len(k.v.s) # 1 THEN Fail
      ELSE LET c == SkipWs(k.rest)
           IN  IF c = <<>> \/ Head(c) # ":" THEN Fail
               ELSE LET r == ParseValue(Tail(c))
                    IN  IF ~r.ok THEN Fail
                        ELSE LET u == SkipWs(r.rest)
                                 m == Append(acc, <<k.v.s[1], r.v>>)
                             IN  IF u = <<>> THEN Fail
                                 ELSE IF Head(u) = "," THEN ParseMembers(Tail(u), m)
                                 ELSE IF Head(u) = "}" THEN Ok(JObj(m), Tail(u))
                                 ELSE Fail

ParseValue(t0) ==
  LET t == SkipWs(t0)
  IN  IF t = <<>> THEN Fail
      ELSE CASE Head(t) = Q -> ParseString(t)
             [] Head(t) = "null" -> Ok(JNull, Tail(t))
             [] Head(t) = "[" ->
                  LET u == SkipWs(Tail(t))
                  IN  IF u # <<>> /\ Head(u) = "]" THEN Ok(JArr(<<>>), Tail(u))
                      ELSE ParseElems(u, <<>>)
             [] Head(t) = "{" ->
                  LET u == SkipWs(Tail(t))
                  IN  IF u # <<>> /\ Head(u) = "}" THEN Ok(JObj(<<>>), Tail(u))
                      ELSE ParseMembers(u, <<>>)
             [] OTHER -> Fail

\* JSON.parse(text): the value, or a SyntaxError (ok = FALSE) when the text
\* is not exactly one JSON value surrounded by optional whitespace
JsonParse(text) ==
  LET r == ParseValue(text)
  IN  IF r.ok /\ SkipWs(r.rest) = <<>> THEN Ok(r.v, <<>>) ELSE Fail

RECURSIVE GetFrom(_, _, _)
GetFrom(m, k, i) ==
  IF i = 0 THEN Undefined
  ELSE IF m[i][1] = k THEN m[i][2]
  ELSE GetFrom(m, k, i - 1)

\* property access v.k on a value that is not null or undefined
Get(v, k) == IF v.t = "obj" THEN GetFrom(v.m, k, Len(v.m)) ELSE Undefined

(***************************************************************************)
(* Response Extractor (main.ts:130-146)                                    *)
(***************************************************************************)
RECURSIVE TrimLeft(_)
TrimLeft(t) == IF t # <<>> /\ Head(t) \in {WS, NL} THEN TrimLeft(Tail(t)) ELSE t

RECURSIVE TrimRight(_)
TrimRight(t) ==
  IF t # <<>> /\ t[Len(t)] \in {WS, NL} THEN TrimRight(SubSeq(t, 1, Len(t) - 1)) ELSE t

\* String.prototype.trim
Trim(t) == TrimLeft(TrimRight(t))

\* cleanedContent.match of main.ts:134: the first FENCE that
\* has a later FENCE opens the block; the lazy group ends at the next FENCE.
\* The result is capture group 1, or NoMatch.
NoMatch == <<"<no match>">>
CodeBlockMatch(text) ==
  LET i == IndexFrom(text, FENCE, 1)
      j == IF i = 0 THEN 0 ELSE IndexFrom(text, FENCE, i + 1)
  IN  IF j = 0 THEN NoMatch
      ELSE LET inner == SubSeq(text, i + 1, j - 1)
               untagged == IF inner # <<>> /\ Head(inner) = JSONTAG
                           THEN Tail(inner) ELSE inner
           IN  TrimLeft(untagged)

\* main.ts:131-137
CleanedContent(messageContent) ==
  LET codeBlockMatch == CodeBlockMatch(messageContent)
  IN  IF codeBlockMatch # NoMatch THEN Trim(codeBlockMatch) ELSE messageContent

\* main.ts:131-146: the structured data, or ok = FALSE for the
\* 'Failed to parse JSON response' error
Extract(messageContent) == JsonParse(CleanedContent(messageContent))

(***************************************************************************)
(* Document store, settings and pipeline invocations                       *)
(***************************************************************************)
VARIABLES
  folders,   \* the folders of the vault that exist
  files,     \* the documents of the vault: path -> text
  apiKey,    \* settings.apiKey
  inv,       \* per handler slot: position and locals of the running handler
  last,      \* what the handler that finished most recently did
  runs       \* number of trigger events handled so far

vars == <<folders, files, apiKey, inv, last, runs>>

\* the two callbacks that call parseAndOutput (main.ts:26, main.ts:71); one
\* run of each can be under way at a time, so that two invocations overlap
Procs == {"command", "watch"}
\* bound on the number of trigger events
MaxRuns == 2

\* main.ts:56-60
dirs == <<"Parsed_Notes", "Parsed_Notes/summaries", "Parsed_Notes/notes">>
\* the folder a folder lies in ("" is the vault root)
Parent(d) == IF d = "Parsed_Notes" THEN "" ELSE "Parsed_Notes"

Path(d, n) == [dir |-> d, name |-> n]
\* main.ts:149
SummaryPath(filename) == Path("Parsed_Notes/summaries", <<filename, "_summary.md">>)
\* main.ts:153
NotePath(title) == Path("Parsed_Notes/notes", title \o <<".md">>)
\* main.ts:157
TasksPath == Path("Parsed_Notes", <<"tasks.md">>)

\* the text of a folder path and of a document path, in pieces, as the
\* code hands them to the store (main.ts:57-59, 149, 153, 157)
DirText(d) ==
  CASE d = "Parsed_Notes" -> <<"Parsed_Notes">>
    [] d = "Parsed_Notes/summaries" -> <<"Parsed_Notes", "/", "summaries">>
    [] d = "Parsed_Notes/notes" -> <<"Parsed_Notes", "/", "notes">>
PathText(p) == DirText(p.dir) \o <<"/">> \o p.name

\* vault.adapter.exists(dir), main.ts:63
Exists(d) == d \in folders
\* vault.createFolder(dir), main.ts:65: rejects when the folder exists
CanCreateFolder(d) == d \notin folders
CreateFolder(d) == folders \cup {d} \cup (IF Parent(d) = "" THEN {} ELSE {Parent(d)})
\* vault.create(path, data), main.ts:149,153,163: rejects when a document of
\* that path exists or its folder does not
CanCreate(p) == p \notin DOMAIN files /\ p.dir \in folders
Create(p, text) == (p :> text) @@ files
\* vault.getAbstractFileByPath(path) instanceof TFile, main.ts:157-158
IsFile(p) == p \in DOMAIN files
\* vault.modify(file, data), main.ts:161
Modify(p, text) == [files EXCEPT ![p] = text]

(***************************************************************************)
(* Errors and the locals of an invocation                                  *)
(***************************************************************************)
Err(kind, status, msg) == [kind |-> kind, status |-> status, msg |-> msg]
NoError == Err("none", 0, <<>>)
\* main.ts:85
ConfigError == Err("ConfigError", 0, <<"OpenAI API key not set">>)
\* a rejected fetch, main.ts:105
NetworkError == Err("NetworkError", 0, <<>>)
\* a rejected response.json(), main.ts:119,123
SyntaxError == Err("SyntaxError", 0, <<>>)
\* a property read of null or undefined, a call of a missing method, or an
\* iteration of a value that is not iterable
TypeError == Err("TypeError", 0, <<>>)
\* main.ts:127
EmptyResponse == Err("EmptyResponse", 0, <<"No response content received from OpenAI">>)
\* main.ts:145
MalformedPayload == Err("MalformedPayload", 0, <<"Failed to parse JSON response">>)
\* a rejected vault.createFolder, vault.create or vault.modify
StorageError == Err("StorageError", 0, <<>>)
\* main.ts:120
ApiError(status, msg) == Err("ApiError", status, msg)

NotJson == [t |-> "notjson"]
NoResponse == [ok |-> FALSE, status |-> 0, statusText |-> <<>>, body |-> NotJson]

\* pc, filename, dirIdx, response, data, items, noteIdx and newTasks are the
\* position and the locals of the handler; the other fields record what it
\* was given and what it did: the trigger (via), whether parseAndOutput was
\* called (invoked), the credential at that call (keyAtCall), the kind of
\* reply of the completion service (replyKind), the error it rejected with,
\* its notices, its network calls and the kinds of its store writes
IdleInv ==
  [pc |-> "idle", via |-> "none", invoked |-> FALSE, filename |-> "",
   dirIdx |-> 0, keyAtCall |-> "", response |-> NoResponse,
   replyKind |-> "none", data |-> Undefined, items |-> <<>>, noteIdx |-> 0,
   newTasks |-> <<>>, error |-> NoError, notices |-> <<>>, netCalls |-> 0,
   writes |-> {}]

\* the Notice texts
NoticeKey == "Please set your OpenAI API key in the plugin settings"
NoticeSuccess == "Successfully parsed transcript"
NoticeFailure == "Failed to parse transcript. Check console for details."
NoticeOpen == "Please open a markdown transcript file first"

\* the handler has run to its end: its locals are gone, what it did remains
Finished(r) ==
  [IdleInv EXCEPT !.pc = "done", !.via = r.via, !.invoked = r.invoked,
                  !.keyAtCall = r.keyAtCall, !.replyKind = r.replyKind,
                  !.notices = r.notices, !.netCalls = r.netCalls,
                  !.writes = r.writes]

\* parseAndOutput rejects with e (main.ts:85, 165-168).  The command callback
\* catches it and shows a Notice (main.ts:33-36); the watch callback has no
\* handler (main.ts:71-76).
Throw(r, e) ==
  [Finished(r) EXCEPT
     !.error = e,
     !.notices = IF r.via = "command" THEN Append(@, NoticeFailure) ELSE @]

\* parseAndOutput resolves; main.ts:32 for the command, main.ts:74-75 for
\* the watch callback
Return(r) ==
  [Finished(r) EXCEPT
     !.notices = IF r.via = "command" THEN Append(@, NoticeSuccess) ELSE @]

(***************************************************************************)
(* Values as JavaScript coerces them                                       *)
(***************************************************************************)
Nullish(v) == v.t \in {"null", "undef"}
Truthy(v) == ~Nullish(v) /\ ~(v.t = "str" /\ v.s = <<>>)

RECURSIVE ToText(_)
\* the string a template literal interpolates for v
ToText(v) ==
  CASE v.t = "str" -> v.s
    [] v.t = "undef" -> <<"undefined">>
    [] v.t = "null" -> <<"null">>
    [] v.t = "arr" -> Join([i \in 1..Len(v.a) |->
                            IF Nullish(v.a[i]) THEN <<>> ELSE ToText(v.a[i])], <<",">>)
    [] OTHER -> <<"[object Object]">>

\* TaskLines with the lines joined by nothing
TaskLines_NoLineBreak(tasks) ==
  Flatten([i \in 1..Len(tasks.a) |-> <<BOX>> \o ToText(tasks.a[i])])

\* structuredData.tasks.map(task => the checkbox line).join, main.ts:160,163
TaskLines(tasks) == Join([i \in 1..Len(tasks.a) |-> <<BOX>> \o ToText(tasks.a[i])], <<NL>>)

\* the values a for-of loop over v visits (main.ts:152); v is an array or a
\* string, whose iteration yields its characters
Iterable(v) == v.t \in {"arr", "str"}
IterItems(v) == IF v.t = "arr" THEN v.a ELSE [i \in 1..Len(v.s) |-> JStr(<<v.s[i]>>)]

(***************************************************************************)
(* Inputs                                                                  *)
(***************************************************************************)
\* the documents a trigger can name: path, basename and extension.  A path
\* is the sequence of the pieces of its text, cut so that a prefix of the
\* text is a prefix of the sequence: transcripts_old/f1.md starts with the
\* text transcripts
Doc(path, basename, ext) == [path |-> path, basename |-> basename, extension |-> ext]
NoFile == Doc(<<>>, "", "")
Docs ==
  { Doc(<<"transcripts", "/", "f1", ".md">>, "f1", "md"),
    Doc(<<"transcripts", "/", "f1", ".txt">>, "f1", "txt"),
    Doc(<<"transcripts", "_old", "/", "f1", ".md">>, "f1", "md"),
    Doc(<<"inbox", "/", "f2", ".md">>, "f2", "md") }

\* String.prototype.startsWith, main.ts:72
StartsWith(path, prefix) ==
  Len(path) >= Len(prefix) /\ SubSeq(path, 1, Len(prefix)) = prefix

Keys == {"", "sk-1"}

\* a StructuredExtraction record
Extraction(summary, notes, tasks) ==
  JObj(<< <<"summary", JStr(summary)>>,
          <<"notes", JArr([i \in 1..Len(notes) |->
                           JObj(<< <<"title", JStr(notes[i][1])>>,
                                   <<"content", JStr(notes[i][2])>> >>)])>>,
          <<"tasks", JArr([i \in 1..Len(tasks) |-> JStr(tasks[i])])>> >>)

\* a reply wrapped in a fenced block tagged json
Fenced(text) == <<FENCE, JSONTAG, NL>> \o text \o <<NL, FENCE>>

\* the success body {choices: [{message: {content}}]}
ChatBody(content) ==
  JObj(<< <<"choices", JArr(<< JObj(<< <<"message",
            JObj(<< <<"content", content>> >>)>> >>) >>)>> >>)

Response(ok, status, statusText, body) ==
  [ok |-> ok, status |-> status, statusText |-> statusText, body |-> body]

\* message contents the completion service can return
MessageContents ==
  { Fenced(Stringify(Extraction(<<"s">>, <<>>, << <<"a">> >>))),
    Stringify(Extraction(<<"s">>, << <<(<<"n">>), (<<"c">>)>> >>, << <<"b">> >>)),
    <<"Sure", WS>> \o Fenced(Stringify(Extraction(<<"s">>, <<>>, << <<"a">> >>)))
      \o <<WS, "done">>,
    <<"I", WS, "cannot", WS, "help">>,
    Fenced(<<"I", WS, "cannot", WS, "help">>),
    <<FENCE, JSONTAG, NL>> \o Stringify(Extraction(<<"s">>, <<>>, <<>>)),
    <<"{", Q, "summary", Q, ":", Q, "s", Q, ",">>,
    Stringify(JObj(<< <<"summary", JStr(<<"s">>)>>, <<"notes", JArr(<<>>)>> >>)),
    Stringify(JObj(<< <<"summary", JStr(<<"s">>)>>, <<"tasks", JArr(<<>>)>> >>)) }

\* responses of the completion service
Responses ==
  { Response(TRUE, 200, <<"OK">>, ChatBody(JStr(c))) : c \in MessageContents }
  \cup { Response(TRUE, 200, <<"OK">>, b) :
           b \in {NotJson, ChatBody(JStr(<<>>)), ChatBody(JNull)} }
  \cup { Response(FALSE, 401, <<"Unauthorized">>, b) :
           b \in { NotJson, JObj(<<>>),
                   JObj(<< <<"error", JObj(<< <<"message", JStr(<<"bad key">>)>> >>)>> >>) } }
  \cup { Response(FALSE, 500, <<"Internal Server Error">>,
                  ChatBody(JStr(Stringify(Extraction(<<"s">>, <<>>, << <<"a">> >>))))) }

(***************************************************************************)
(* The synchronous code between two awaits                                 *)
(***************************************************************************)
\* AfterDirs without the credential check of main.ts:83-86
AfterDirs_NoKeyCheck(r) == [r EXCEPT !.pc = "fetch"]

\* main.ts:83-116: the credential check, the prompt and the call of fetch
AfterDirs(r) ==
  IF apiKey = ""
  THEN Throw([r EXCEPT !.notices = Append(@, NoticeKey)], ConfigError)
  ELSE [r EXCEPT !.pc = "fetch"]

\* main.ts:62: the next folder of the loop, or the return to parseAndOutput
NextDir(r) ==
  IF r.dirIdx < Len(dirs)
  THEN [r EXCEPT !.pc = "exists", !.dirIdx = @ + 1]
  ELSE AfterDirs(r)

\* main.ts:157-163: the lookup of the task list and the call of read or create
TasksPhase(r) ==
  IF IsFile(TasksPath)
  THEN [r EXCEPT !.pc = "taskread"]
  ELSE LET tasks == Get(r.data, "tasks")
       IN  IF tasks.t # "arr" THEN Throw(r, TypeError)
           ELSE [r EXCEPT !.pc = "taskcreate", !.newTasks = TaskLines(tasks)]

\* main.ts:152-153: the i-th turn of the loop over the notes
StartNote(r, i) ==
  IF i > Len(r.items) THEN TasksPhase(r)
  ELSE IF Nullish(r.items[i]) THEN Throw(r, TypeError)
  ELSE [r EXCEPT !.pc = "note", !.noteIdx = i]

\* StartNotes with the loop of main.ts:152-154 left out
StartNotes_TasksFirst(r) == TasksPhase(r)

\* main.ts:152: entering the loop over structuredData.notes
StartNotes(r) ==
  LET notes == Get(r.data, "notes")
  IN  IF ~Iterable(notes) THEN Throw(r, TypeError)
      ELSE StartNote([r EXCEPT !.items = IterItems(notes)], 1)

\* responseData.choices[0].message.content, main.ts:124; Throws when a link
\* of the chain is null or undefined
Throws == [t |-> "throws"]
MessageContent(responseData) ==
  IF Nullish(responseData) THEN Throws
  ELSE LET choices == Get(responseData, "choices")
       IN  IF Nullish(choices) THEN Throws
           ELSE LET first == IF choices.t = "arr" /\ choices.a # <<>>
                             THEN choices.a[1] ELSE Undefined
                IN  IF Nullish(first) THEN Throws
                    ELSE LET message == Get(first, "message")
                         IN  IF Nullish(message) THEN Throws
                             ELSE Get(message, "content")

\* AfterJson without the catch of main.ts:143-146: the error of JSON.parse
\* leaves parseAndOutput as it is
AfterJson_RawParseError(r, responseData) ==
  LET messageContent == MessageContent(responseData)
  IN  IF messageContent = Throws THEN Throw(r, TypeError)
      ELSE IF ~Truthy(messageContent) THEN Throw(r, EmptyResponse)
      ELSE IF messageContent.t # "str" THEN Throw(r, TypeError)
      ELSE LET structuredData == Extract(messageContent.s)
           IN  IF ~structuredData.ok THEN Throw(r, SyntaxError)
               ELSE IF Nullish(structuredData.v) THEN Throw(r, TypeError)
               ELSE [r EXCEPT !.pc = "summary", !.data = structuredData.v]

\* main.ts:124-149: from the parsed body to the call that creates the
\* summary
AfterJson(r, responseData) ==
  LET messageContent == MessageContent(responseData)
  IN  IF messageContent = Throws THEN Throw(r, TypeError)
      ELSE IF ~Truthy(messageContent) THEN Throw(r, EmptyResponse)
      ELSE IF messageContent.t # "str" THEN Throw(r, TypeError)
      ELSE LET structuredData == Extract(messageContent.s)
           IN  IF ~structuredData.ok THEN Throw(r, MalformedPayload)
               ELSE IF Nullish(structuredData.v) THEN Throw(r, TypeError)
               ELSE [r EXCEPT !.pc = "summary", !.data = structuredData.v]

\* main.ts:119-120: the error thrown for a non-success status
ErrorOfStatus(response, errorData) ==
  LET error == Get(errorData, "error")
      message == IF Nullish(error) THEN Undefined ELSE Get(error, "message")
  IN  ApiError(response.status,
               IF Truthy(message) THEN ToText(message) ELSE response.statusText)

\* what vault.create can do with this data: it rejects on a path conflict;
\* data that is not a string is passed through, and the host either rejects
\* it or writes its text
CreateOutcomes(path, data) ==
  IF ~CanCreate(path) THEN {"reject"}
  ELSE IF data.t = "str" THEN {"ok"}
  ELSE {"ok", "reject"}

(***************************************************************************)
(* Triggers                                                                *)
(***************************************************************************)
\* the handler in slot p moves to r; a handler that has run to its end
\* leaves its slot and is recorded in last, until the next trigger
Commit(p, r) ==
  /\ inv' = [inv EXCEPT ![p] = IF r.pc = "done" THEN IdleInv ELSE r]
  /\ last' = IF r.pc = "done" THEN r
             ELSE IF r.pc = "read" THEN IdleInv
             ELSE last

\* WatchedFolder when the output folder is the one that is watched
WatchedFolder_Output == <<"Parsed_Notes">>

\* main.ts:20: the argument of watchFolder
WatchedFolder == <<"transcripts">>

\* main.ts:71-76: a document is created in the vault
WatchCreate(file) ==
  /\ runs < MaxRuns /\ inv["watch"].pc = "idle"
  /\ runs' = runs + 1
  /\ IF StartsWith(file.path, WatchedFolder)
     THEN Commit("watch", [IdleInv EXCEPT !.pc = "read", !.via = "watch",
                                          !.filename = file.basename])
     ELSE UNCHANGED <<inv, last>>
  /\ UNCHANGED <<folders, files, apiKey>>

\* ParseTranscript without the extension test of main.ts:28
ParseTranscript_AnyExtension(activeFile) ==
  /\ runs < MaxRuns /\ inv["command"].pc = "idle"
  /\ runs' = runs + 1
  /\ IF activeFile # NoFile
     THEN Commit("command", [IdleInv EXCEPT !.pc = "read", !.via = "command",
                                            !.filename = activeFile.basename])
     ELSE Commit("command", [IdleInv EXCEPT !.pc = "done", !.via = "command",
                                            !.notices = <<NoticeOpen>>])
  /\ UNCHANGED <<folders, files, apiKey>>

\* main.ts:26-40: the Parse Transcript command
ParseTranscript(activeFile) ==
  /\ runs < MaxRuns /\ inv["command"].pc = "idle"
  /\ runs' = runs + 1
  /\ IF activeFile # NoFile /\ activeFile.extension = "md"
     THEN Commit("command", [IdleInv EXCEPT !.pc = "read", !.via = "command",
                                            !.filename = activeFile.basename])
     ELSE Commit("command", [IdleInv EXCEPT !.pc = "done", !.via = "command",
                                            !.notices = <<NoticeOpen>>])
  /\ UNCHANGED <<folders, files, apiKey>>

\* main.ts:30,73 and 79-81, 62-63: the transcript is read, parseAndOutput is
\* called and ensureDirectoriesExist asks for the first folder
ReadTranscript(p) ==
  /\ inv[p].pc = "read"
  /\ Commit(p, [inv[p] EXCEPT !.pc = "exists", !.dirIdx = 1, !.invoked = TRUE,
                               !.keyAtCall = apiKey])
  /\ UNCHANGED <<folders, files, apiKey, runs>>

(***************************************************************************)
(* ensureDirectoriesExist (main.ts:55-68)                                  *)
(***************************************************************************)
\* main.ts:63-64
CheckExists(p) ==
  /\ inv[p].pc = "exists"
  /\ Commit(p, IF Exists(dirs[inv[p].dirIdx]) THEN NextDir(inv[p])
               ELSE [inv[p] EXCEPT !.pc = "mkdir"])
  /\ UNCHANGED <<folders, files, apiKey, runs>>

\* main.ts:65
MakeFolder(p) ==
  /\ inv[p].pc = "mkdir"
  /\ LET d == dirs[inv[p].dirIdx]
     IN  IF CanCreateFolder(d)
         THEN /\ folders' = CreateFolder(d)
              /\ Commit(p, NextDir([inv[p] EXCEPT !.writes = @ \cup {"createFolder"}]))
         ELSE /\ folders' = folders
              /\ Commit(p, Throw(inv[p], StorageError))
  /\ UNCHANGED <<files, apiKey, runs>>

(***************************************************************************)
(* parseAndOutput (main.ts:79-169)                                         *)
(***************************************************************************)
\* a record {summary: string, notes: [{title, content}], tasks: [string]}
WellFormed(v) ==
  /\ v.t = "obj"
  /\ Get(v, "summary").t = "str"
  /\ Get(v, "notes").t = "arr"
  /\ \A i \in 1..Len(Get(v, "notes").a) :
       LET note == Get(v, "notes").a[i]
       IN  note.t = "obj" /\ Get(note, "title").t = "str"
                          /\ Get(note, "content").t = "str"
  /\ Get(v, "tasks").t = "arr"
  /\ \A i \in 1..Len(Get(v, "tasks").a) : Get(v, "tasks").a[i].t = "str"

\* what the completion service answered: a non-success status, no usable
\* content, or content whose candidate payload is not JSON, is JSON but not
\* a well-formed record, or is a well-formed record
ReplyKind(response) ==
  IF ~response.ok THEN "status"
  ELSE IF response.body = NotJson THEN "nocontent"
  ELSE LET messageContent == MessageContent(response.body)
       IN  IF messageContent = Throws \/ messageContent.t # "str"
              \/ ~Truthy(messageContent)
           THEN "nocontent"
           ELSE LET payload == Extract(messageContent.s)
                IN  IF ~payload.ok THEN "unparseable"
                    ELSE IF WellFormed(payload.v) THEN "complete"
                    ELSE "incomplete"

\* AwaitBody without the status check of main.ts:118
AwaitBody_NoStatusCheck(response) == "json"

\* main.ts:118: the branch on response.ok, each side awaiting response.json
AwaitBody(response) == IF response.ok THEN "json" ELSE "errjson"

\* main.ts:105-118: the request rejects, or resolves with a response
Fetch(p) ==
  /\ inv[p].pc = "fetch"
  /\ \/ Commit(p, Throw([inv[p] EXCEPT !.netCalls = @ + 1,
                                       !.replyKind = "rejected"], NetworkError))
     \/ \E response \in Responses :
          Commit(p, [inv[p] EXCEPT !.netCalls = @ + 1, !.response = response,
                                   !.replyKind = ReplyKind(response),
                                   !.pc = AwaitBody(response)])
  /\ UNCHANGED <<folders, files, apiKey, runs>>

\* main.ts:119-120: the body of a non-success response is read
ErrorJson(p) ==
  /\ inv[p].pc = "errjson"
  /\ LET errorData == inv[p].response.body
     IN  Commit(p, IF errorData = NotJson THEN Throw(inv[p], SyntaxError)
                   ELSE IF Nullish(errorData) THEN Throw(inv[p], TypeError)
                   ELSE Throw(inv[p], ErrorOfStatus(inv[p].response, errorData)))
  /\ UNCHANGED <<folders, files, apiKey, runs>>

\* main.ts:123-149: the body of a success response is read and handled
ResponseJson(p) ==
  /\ inv[p].pc = "json"
  /\ LET responseData == inv[p].response.body
     IN  Commit(p, IF responseData = NotJson THEN Throw(inv[p], SyntaxError)
                   ELSE AfterJson([inv[p] EXCEPT !.response = NoResponse],
                                  responseData))
  /\ UNCHANGED <<folders, files, apiKey, runs>>

\* main.ts:149-153
CreateSummary(p) ==
  /\ inv[p].pc = "summary"
  /\ LET path == SummaryPath(inv[p].filename)
         data == Get(inv[p].data, "summary")
     IN  \E outcome \in CreateOutcomes(path, data) :
           IF outcome = "ok"
           THEN /\ files' = Create(path, ToText(data))
                /\ Commit(p, StartNotes([inv[p] EXCEPT !.writes = @ \cup {"create"}]))
           ELSE /\ files' = files
                /\ Commit(p, Throw(inv[p], IF CanCreate(path) THEN TypeError
                                           ELSE StorageError))
  /\ UNCHANGED <<folders, apiKey, runs>>

\* main.ts:153 and the next turn of the loop, or main.ts:157-163
CreateNote(p) ==
  /\ inv[p].pc = "note"
  /\ LET note == inv[p].items[inv[p].noteIdx]
         path == NotePath(ToText(Get(note, "title")))
         data == Get(note, "content")
     IN  \E outcome \in CreateOutcomes(path, data) :
           IF outcome = "ok"
           THEN /\ files' = Create(path, ToText(data))
                /\ Commit(p, StartNote([inv[p] EXCEPT !.writes = @ \cup {"create"}],
                                       inv[p].noteIdx + 1))
           ELSE /\ files' = files
                /\ Commit(p, Throw(inv[p], IF CanCreate(path) THEN TypeError
                                           ELSE StorageError))
  /\ UNCHANGED <<folders, apiKey, runs>>

\* Appended without the line break of main.ts:160 before the new lines
Appended_NoSeparator(existingTasks, tasks) == existingTasks \o TaskLines(tasks)

\* the text written back for the task list read as existingTasks, main.ts:160
Appended(existingTasks, tasks) == existingTasks \o <<NL>> \o TaskLines(tasks)

\* main.ts:159-161: the task list is read, extended and modify is called
ReadTasks(p) ==
  /\ inv[p].pc = "taskread"
  /\ LET existingTasks == files[TasksPath]
         tasks == Get(inv[p].data, "tasks")
     IN  Commit(p, IF tasks.t # "arr" THEN Throw(inv[p], TypeError)
                   ELSE [inv[p] EXCEPT !.pc = "taskmodify",
                                       !.newTasks = Appended(existingTasks, tasks)])
  /\ UNCHANGED <<folders, files, apiKey, runs>>

\* main.ts:161
ModifyTasks(p) ==
  /\ inv[p].pc = "taskmodify"
  /\ files' = Modify(TasksPath, inv[p].newTasks)
  /\ Commit(p, Return([inv[p] EXCEPT !.writes = @ \cup {"modify"}]))
  /\ UNCHANGED <<folders, apiKey, runs>>

\* main.ts:163
CreateTasks(p) ==
  /\ inv[p].pc = "taskcreate"
  /\ IF CanCreate(TasksPath)
     THEN /\ files' = Create(TasksPath, inv[p].newTasks)
          /\ Commit(p, Return([inv[p] EXCEPT !.writes = @ \cup {"create"}]))
     ELSE /\ files' = files
          /\ Commit(p, Throw(inv[p], StorageError))
  /\ UNCHANGED <<folders, apiKey, runs>>

(***************************************************************************)
(* The settings surface and the user of the vault                          *)
(***************************************************************************)
\* main.ts:193-196: the API key field changes
SetApiKey(value) ==
  /\ apiKey # value
  /\ apiKey' = value
  /\ UNCHANGED <<folders, files, inv, last, runs>>

\* the user removes an empty output folder from the vault while no handler
\* runs; this is the case the existence check of main.ts:63-64 is there for
FolderDeleted(d) ==
  /\ d \in folders
  /\ \A p \in Procs : inv[p].pc = "idle"
  /\ \A e \in folders : Parent(e) # d
  /\ \A f \in DOMAIN files : f.dir # d
  /\ folders' = folders \ {d}
  /\ UNCHANGED <<files, apiKey, inv, last, runs>>

(***************************************************************************)
(* Specification                                                           *)
(***************************************************************************)
NoFiles == [f \in {} |-> <<>>]

\* after onload (main.ts:14-45): the settings are loaded, the output
\* folders exist, no handler runs; the task list of an earlier session may
\* be there
Init ==
  /\ folders = {dirs[i] : i \in 1..Len(dirs)}
  /\ files \in {NoFiles, TasksPath :> <<BOX, "x">>}
  /\ apiKey \in Keys
  /\ inv = [p \in Procs |-> IdleInv]
  /\ last = IdleInv
  /\ runs = 0

Step(p) ==
  \/ ReadTranscript(p)
  \/ CheckExists(p)
  \/ MakeFolder(p)
  \/ Fetch(p)
  \/ ErrorJson(p)
  \/ ResponseJson(p)
  \/ CreateSummary(p)
  \/ CreateNote(p)
  \/ ReadTasks(p)
  \/ ModifyTasks(p)
  \/ CreateTasks(p)

Next ==
  \/ \E file \in Docs : WatchCreate(file)
  \/ \E activeFile \in Docs \cup {NoFile} : ParseTranscript(activeFile)
  \/ \E p \in Procs : Step(p)
  \/ \E value \in Keys : SetApiKey(value)
  \/ \E d \in folders : FolderDeleted(d)

Spec == Init /\ [][Next]_vars

(***************************************************************************)
(* The Artifact Writer on its own: one handler that has just extracted a   *)
(* record, over a vault whose task list is any short text or is missing    *)
(***************************************************************************)
\* bound on the number of tasks of a record
MaxTasks == 2
\* bound on the length of a task text
MaxTaskLen == 2
\* bound on the length of the task list found in the vault
MaxDocLen == 3

Texts(alphabet, n) == UNION {[1..k -> alphabet] : k \in 0..n}
Lists(elems, n) == UNION {[1..k -> elems] : k \in 0..n}

TaskTexts == Texts({"a", NL, BOX}, MaxTaskLen)
TaskDocs == Texts({"x", NL, BOX}, MaxDocLen)

\* the handler of the command, having extracted data for the file f1
Extracted(data) ==
  [IdleInv EXCEPT !.pc = "summary", !.via = "command", !.invoked = TRUE,
                  !.filename = "f1", !.keyAtCall = "sk-1",
                  !.replyKind = "complete", !.netCalls = 1, !.data = data]

InitWriter ==
  /\ folders = {dirs[i] : i \in 1..Len(dirs)}
  /\ files \in {NoFiles} \cup {TasksPath :> d : d \in TaskDocs}
  /\ apiKey = "sk-1"
  /\ \E tasks \in Lists(TaskTexts, MaxTasks) :
       inv = [p \in Procs |->
                IF p = "command" THEN Extracted(Extraction(<<"s">>, <<>>, tasks))
                ELSE IdleInv]
  /\ last = IdleInv
  /\ runs = 1

NextWriter ==
  \E p \in Procs : CreateSummary(p) \/ ReadTasks(p) \/ ModifyTasks(p) \/ CreateTasks(p)

SpecWriter == InitWriter /\ [][NextWriter]_vars

(***************************************************************************)
(* The Response Extractor on its own: one handler that awaits the body of  *)
(* a reply which is the serialisation of a record in a fenced block        *)
(***************************************************************************)
\* bound on the length of the strings of a record
MaxStrLen == 1
\* bound on the number of notes and on the number of tasks of a record
MaxItems == 1

Strs == Texts({"a", NL, FENCE}, MaxStrLen)
Values ==
  { Extraction(summary, notes, tasks) :
      summary \in Strs, notes \in Lists(Strs \X Strs, MaxItems),
      tasks \in Lists(Strs, MaxItems) }

\* the serialisation of v in a fenced block, with or without the tag
Wrappings(v) == {Fenced(Stringify(v)), <<FENCE, NL>> \o Stringify(v) \o <<NL, FENCE>>}

Reply(content) == Response(TRUE, 200, <<"OK">>, ChatBody(JStr(content)))

InitExtract ==
  /\ folders = {dirs[i] : i \in 1..Len(dirs)}
  /\ files = NoFiles
  /\ apiKey = "sk-1"
  /\ \E v \in Values : \E content \in Wrappings(v) :
       inv = [p \in Procs |->
                IF p = "command"
                THEN [IdleInv EXCEPT !.pc = "json", !.via = "command",
                                     !.invoked = TRUE, !.filename = "f1",
                                     !.keyAtCall = "sk-1", !.netCalls = 1,
                                     !.response = Reply(content),
                                     !.replyKind = ReplyKind(Reply(content))]
                ELSE IdleInv]
  /\ last = IdleInv
  /\ runs = 1

NextExtract == \E p \in Procs : ResponseJson(p)

SpecExtract == InitExtract /\ [][NextExtract]_vars

(***************************************************************************)
(* Properties                                                              *)
(***************************************************************************)
\* the handlers that run and the one that finished last
Handlers == {inv[p] : p \in Procs} \cup {last}

\* the store writes that create or overwrite a document
DocWrites(r) == r.writes \cap {"create", "modify"}

\* the completion service call failed: the request was rejected, the status
\* was not a success, or there was no usable content
CompletionFailed(r) == r.replyKind \in {"rejected", "status", "nocontent"}

RECURSIVE Lines(_)
\* the lines of a text
Lines(text) ==
  LET i == IndexFrom(text, NL, 1)
  IN  IF i = 0 THEN <<text>>
      ELSE <<SubSeq(text, 1, i - 1)>> \o Lines(SubSeq(text, i + 1, Len(text)))

IsCheckbox(line) == line # <<>> /\ Head(line) = BOX
\* the checkbox lines of a text, in order
CheckboxLines(text) == SelectSeq(Lines(text), IsCheckbox)

\* the task texts of the record a handler holds
TasksOf(r) ==
  LET tasks == Get(r.data, "tasks")
  IN  [i \in 1..Len(tasks.a) |-> tasks.a[i].s]
\* the checkbox line of each task: the prefix and the first line of its text
BoxLines(ts) == [i \in 1..Len(ts) |-> <<BOX>> \o Lines(ts[i])[1]]
\* no task text has a line break followed by the checkbox prefix
NoBoxLineInside(ts) ==
  \A i \in 1..Len(ts) : \A j \in 1..(Len(ts[i]) - 1) :
    ~(ts[i][j] = NL /\ ts[i][j + 1] = BOX)

\* C1 as stated: a handler whose completion service call failed has
\* performed no store write of any kind, folder creation included
C1_NoWriteOfAnyKind == \A r \in Handlers : CompletionFailed(r) => r.writes = {}

\* C1 as amended: a handler whose completion service call failed has created
\* or overwritten no document; the only store writes it can have performed
\* are creations of missing output folders
C1_NoDocumentWrite ==
  \A r \in Handlers : CompletionFailed(r) => r.writes \subseteq {"createFolder"}

C1_Witness ==
  last.pc = "done" /\ CompletionFailed(last) /\ last.writes = {"createFolder"}

\* C2: no step removes a checkbox line from Parsed_Notes/tasks.md: once the
\* task list exists it keeps existing and every checkbox line it holds
\* is still among its checkbox lines after the step
C2_AppendOnlyLedger ==
  [][IsFile(TasksPath) =>
       /\ TasksPath \in DOMAIN files'
       /\ LET old == CheckboxLines(files[TasksPath])
              new == CheckboxLines(files'[TasksPath])
          IN  /\ Len(old) <= Len(new)
              /\ \A i \in 1..Len(old) : new[i] = old[i]]_vars

\* the step in which handler p overwrites the task list
Overwrites(p) == inv[p].pc = "taskmodify" /\ inv'[p].pc = "idle"
\* the step in which handler p creates the task list
CreatesTasks(p) == inv[p].pc = "taskcreate" /\ inv'[p].pc = "idle" /\ ~IsFile(TasksPath)

\* C3 as stated: when the handler overwrites an existing task list of N
\* checkbox lines with M tasks, the task list has N+M checkbox lines
\* afterwards, the first N being the old ones
C3_AppendAnyTasks ==
  [][\A p \in Procs :
       Overwrites(p) =>
         LET old == CheckboxLines(files[TasksPath])
             new == CheckboxLines(files'[TasksPath])
         IN  /\ Len(new) = Len(old) + Len(TasksOf(inv[p]))
             /\ SubSeq(new, 1, Len(old)) = old]_vars

\* C3 as amended: when the handler overwrites an existing task list with
\* tasks in whose text no line break is followed by the checkbox prefix,
\* the checkbox lines afterwards are the old ones, unchanged and in order,
\* followed by one line per task, in task order
C3_AppendTasks ==
  [][\A p \in Procs :
       Overwrites(p) /\ NoBoxLineInside(TasksOf(inv[p])) =>
         CheckboxLines(files'[TasksPath])
           = CheckboxLines(files[TasksPath]) \o BoxLines(TasksOf(inv[p]))]_vars

C3_Witness ==
  /\ last.pc = "done" /\ last.error = NoError /\ "modify" \in last.writes
  /\ Len(CheckboxLines(files[TasksPath])) = 4
  /\ SubSeq(CheckboxLines(files[TasksPath]), 3, 4) = <<(<<BOX, "a">>), (<<BOX, "a", "a">>)>>

\* C4 as stated: when the handler finds no task list and creates it with K
\* tasks, exactly that one document is added and it has K checkbox lines
C4_CreateAnyTasks ==
  [][\A p \in Procs :
       CreatesTasks(p) =>
         /\ DOMAIN files' = DOMAIN files \cup {TasksPath}
         /\ Len(CheckboxLines(files'[TasksPath])) = Len(TasksOf(inv[p]))]_vars

\* C4 as amended: when the handler finds no task list and creates it with K
\* tasks in whose text no line break is followed by the checkbox prefix,
\* exactly that one document is added and its checkbox lines are the K
\* lines of the tasks, in task order
C4_CreateTasks ==
  [][\A p \in Procs :
       CreatesTasks(p) /\ NoBoxLineInside(TasksOf(inv[p])) =>
         /\ DOMAIN files' = DOMAIN files \cup {TasksPath}
         /\ CheckboxLines(files'[TasksPath]) = BoxLines(TasksOf(inv[p]))]_vars

C4_Witness ==
  /\ last.pc = "done" /\ last.error = NoError /\ last.writes = {"create"}
  /\ IsFile(TasksPath)
  /\ CheckboxLines(files[TasksPath]) = <<(<<BOX, "a">>), (<<BOX, "a", "a">>)>>

\* C5: a handler that called parseAndOutput and has finished has shown
\* exactly one notice
C5_ExactlyOneNotice == last.pc = "done" /\ last.invoked => Len(last.notices) = 1

\* C6: a handler whose reply parses as JSON but is not a well-formed record
\* creates or modifies no document, and fails
C6_AllOrNothing ==
  \A r \in Handlers :
    r.replyKind = "incomplete" =>
      DocWrites(r) = {} /\ (r.pc = "done" => r.error # NoError)

\* C7 as stated: a handler that called parseAndOutput while the credential
\* was empty issues no network request and fails with the configuration error
C7_EmptyKeyAtCall ==
  \A r \in Handlers :
    r.invoked /\ r.keyAtCall = "" =>
      r.netCalls = 0 /\ (r.pc = "done" => r.error = ConfigError)

\* the step in which ensureDirectoriesExist ends, by returning or by throwing
EnsureEnds(p) == inv[p].pc \in {"exists", "mkdir"} /\ inv'[p].pc \notin {"exists", "mkdir"}

\* C7 as amended: if the credential is empty when ensureDirectoriesExist
\* ends, which is when the credential is checked, the handler finishes
\* there without a network request: with the configuration error, or with
\* the error of a folder creation that was rejected
C7_EmptyKeyAtCheck ==
  [][\A p \in Procs :
       EnsureEnds(p) /\ apiKey = "" =>
         /\ inv'[p].pc = "idle"
         /\ last'.netCalls = 0
         /\ \/ last'.error = ConfigError
            \/ /\ last'.error = StorageError
               /\ inv[p].pc = "mkdir"
               /\ ~CanCreateFolder(dirs[inv[p].dirIdx])]_vars

C7_Witness ==
  last.pc = "done" /\ last.keyAtCall = "" /\ last.error = ConfigError /\ last.netCalls = 0

\* the message the service reports in an error body, if any
ServiceMessage(body) ==
  IF body = NotJson \/ Nullish(body) \/ Nullish(Get(body, "error")) THEN Undefined
  ELSE Get(Get(body, "error"), "message")

\* C8: the handler that reads the body of a non-success response fails with
\* an error that carries the status code, and the message of the service
\* when the body has one
C8_StatusInError ==
  [][\A p \in Procs :
       inv[p].pc = "errjson" /\ inv'[p].pc # "errjson" =>
         /\ last'.error.kind = "ApiError"
         /\ last'.error.status = inv[p].response.status
         /\ LET message == ServiceMessage(inv[p].response.body)
            IN  Truthy(message) => last'.error.msg = ToText(message)]_vars

\* C9: the serialisation of a record, wrapped in a fenced block, extracts to
\* that record
C9_RoundTrip ==
  [][\A p \in Procs : \A v \in Values :
       /\ inv[p].pc = "json" /\ inv'[p].pc # "json"
       /\ \E content \in Wrappings(v) : inv[p].response = Reply(content)
       => inv'[p].pc = "summary" /\ inv'[p].data = v]_vars

\* C10: a handler whose candidate payload is not JSON never reaches the
\* Artifact Writer, creates or modifies no document, and when it has
\* finished it has failed with the malformed-payload error
C10_MalformedPayloadOnly ==
  \A r \in Handlers :
    r.replyKind = "unparseable" =>
      /\ r.pc \in {"json", "done"}
      /\ DocWrites(r) = {}
      /\ r.pc = "done" => r.error = MalformedPayload

C10_Witness ==
  last.pc = "done" /\ last.replyKind = "unparseable" /\ last.error = MalformedPayload

\* C11: ensureDirectoriesExist is idempotent under interleaving: whenever a
\* handler calls vault.createFolder (main.ts:65), the folder does not exist
\* at the moment of the call, so that the call does not reject
C11_IdempotentFolders ==
  [][\A p \in Procs :
       inv[p].pc = "mkdir" /\ inv'[p] # inv[p] =>
         ~Exists(dirs[inv[p].dirIdx])]_vars

\* the notices a run of the Parse Transcript command shows when
\* parseAndOutput ends with error e (main.ts:84, main.ts:32, main.ts:35)
CommandNotices(e) ==
  (IF e = ConfigError THEN <<NoticeKey>> ELSE <<>>)
    \o <<IF e = NoError THEN NoticeSuccess ELSE NoticeFailure>>

\* C12: the two trigger paths have the same semantics: an invocation that
\* has finished has shown the notices a run of the command shows for the
\* same outcome, whether the command or the watch-folder event started it
C12_SameNotices ==
  last.pc = "done" /\ last.invoked => last.notices = CommandNotices(last.error)

\* text holds seg as a run of whole lines
HasLines(text, seg) ==
  \E i \in 1..(Len(text) - Len(seg) + 1) :
    /\ SubSeq(text, i, i + Len(seg) - 1) = seg
    /\ i = 1 \/ text[i - 1] = NL
    /\ i + Len(seg) - 1 = Len(text) \/ text[i + Len(seg)] = NL

\* the notes of a well-formed record have pairwise distinct titles
DistinctTitles(data) ==
  LET notes == Get(data, "notes").a
  IN  \A i, j \in 1..Len(notes) :
        Get(notes[i], "title") = Get(notes[j], "title") => i = j

\* the store st holds the artifacts of the record data extracted for filename
HoldsArtifacts(st, filename, data) ==
  LET notes == Get(data, "notes").a
      tasks == Get(data, "tasks").a
  IN  /\ SummaryPath(filename) \in DOMAIN st
      /\ st[SummaryPath(filename)] = Get(data, "summary").s
      /\ \A i \in 1..Len(notes) :
           LET path == NotePath(Get(notes[i], "title").s)
           IN  path \in DOMAIN st /\ st[path] = Get(notes[i], "content").s
      /\ TasksPath \in DOMAIN st
      /\ \A i \in 1..Len(tasks) : HasLines(st[TasksPath], <<BOX>> \o tasks[i].s)

\* the handler in slot p is in the task step and this step ends it
LeavesTaskStep(p) ==
  inv[p].pc \in {"taskread", "taskmodify", "taskcreate"} /\ inv'[p].pc = "idle"

Under(path, folder) == StartsWith(path, <<folder, "/">>)

\* C14: a document-created event starts a pipeline invocation if and only if
\* the created document lies under the watched folder transcripts
C14_WatchScope ==
  [][\A file \in Docs :
       WatchCreate(file) =>
         (inv'["watch"].pc = "read" <=> Under(file.path, "transcripts"))]_vars

(***************************************************************************)
(* The Artifact Writer with notes: one or two handlers that have just      *)
(* extracted a record for the file f1, over a vault that may hold a        *)
(* summary, a note and a task list of earlier invocations                  *)
(***************************************************************************)
\* bound on the number of notes of a record
MaxNotes == 2

NoteTitles == {<<"n">>, <<"m">>}
Records ==
  { Extraction(<<"s">>, notes, tasks) :
      notes \in Lists(NoteTitles \X {<<"c">>}, MaxNotes),
      tasks \in {<<>>, << <<"a">> >>} }

\* the documents earlier invocations may have left
Leftovers ==
  { [path \in paths |-> IF path = TasksPath THEN <<BOX, "x">> ELSE <<"old">>] :
      paths \in SUBSET {SummaryPath("f1"), NotePath(<<"m">>), TasksPath} }

InitArtifacts ==
  /\ folders = {dirs[i] : i \in 1..Len(dirs)}
  /\ files \in Leftovers
  /\ apiKey = "sk-1"
  /\ \E data \in Records :
       \E other \in {IdleInv} \cup {[Extracted(d) EXCEPT !.via = "watch"] : d \in Records} :
         inv = [p \in Procs |-> IF p = "command" THEN Extracted(data) ELSE other]
  /\ last = IdleInv
  /\ runs = MaxRuns

NextArtifacts ==
  \E p \in Procs :
    CreateSummary(p) \/ CreateNote(p) \/ ReadTasks(p) \/ ModifyTasks(p) \/ CreateTasks(p)

SpecArtifacts == InitArtifacts /\ [][NextArtifacts]_vars

\* the positions of a handler inside the Artifact Writer
WriterPcs == {"summary", "note", "taskread", "taskmodify", "taskcreate"}

\* the store st holds what the handler r has written before its position:
\* the summary once it is past it, the notes before the current one, and
\* all notes once it is at the task list
WrittenSoFar(st, r) ==
  LET notes == Get(r.data, "notes").a
      done == CASE r.pc = "summary" -> 0
                [] r.pc = "note" -> r.noteIdx - 1
                [] OTHER -> Len(notes)
  IN  /\ r.pc # "summary" =>
           /\ SummaryPath(r.filename) \in DOMAIN st
           /\ st[SummaryPath(r.filename)] = Get(r.data, "summary").s
      /\ \A i \in 1..done :
           LET path == NotePath(Get(notes[i], "title").s)
           IN  path \in DOMAIN st /\ st[path] = Get(notes[i], "content").s

\* C15: the summary is written before the notes, the notes in sequence
\* order, the task list last; a write that the store rejects ends the
\* handler with that failure, leaves the store as the earlier writes made
\* it, and no step removes or changes a summary or a note
C15_OrderedNoRollback ==
  [][/\ \A p \in Procs :
          inv[p].pc \in WriterPcs /\ WellFormed(inv[p].data) =>
            /\ WrittenSoFar(files, inv[p])
            /\ inv'[p].pc = "idle" /\ last'.error # NoError =>
                 /\ files' = files
                 /\ last'.error = StorageError
                 /\ inv[p].via = "command" => last'.notices = <<NoticeFailure>>
     /\ \A path \in DOMAIN files \ {TasksPath} :
          path \in DOMAIN files' /\ files'[path] = files[path]]_vars

C15_Witness ==
  last.pc = "done" /\ last.error = StorageError /\ "create" \in last.writes

\* a record whose notes field or tasks field is absent and whose other
\* fields are well formed
FieldAbsent(data) ==
  /\ data.t = "obj"
  /\ Get(data, "notes") = Undefined \/ Get(data, "tasks") = Undefined
  /\ WellFormed(JObj(<< <<"summary", Get(data, "summary")>>,
                        <<"notes", IF Get(data, "notes") = Undefined
                                   THEN JArr(<<>>) ELSE Get(data, "notes")>>,
                        <<"tasks", IF Get(data, "tasks") = Undefined
                                   THEN JArr(<<>>) ELSE Get(data, "tasks")>> >>))

\* C16: a handler whose record has no notes field or no tasks field treats
\* the absent field as an empty sequence: it does not end with the error of
\* using a missing value, and ends without error unless the store rejects
\* one of its writes
C16_AbsentAsEmpty ==
  [][\A p \in Procs :
       /\ inv[p].pc \in WriterPcs /\ inv'[p].pc = "idle"
       /\ FieldAbsent(inv[p].data)
       => last'.error \in {NoError, StorageError}]_vars

\* C18: the Parse Transcript command issued with no active document, or
\* with one whose extension is not md, does not call parseAndOutput: the
\* callback ends in that step with the one notice that asks for a markdown
\* transcript, no network call and no store write, and the store is unchanged
C18_NoActiveMarkdown ==
  [][\A activeFile \in Docs \cup {NoFile} :
       /\ ParseTranscript(activeFile)
       /\ activeFile = NoFile \/ activeFile.extension # "md"
       => /\ inv'["command"].pc = "idle"
          /\ last'.pc = "done" /\ last'.via = "command" /\ ~last'.invoked
          /\ last'.notices = <<NoticeOpen>>
          /\ last'.netCalls = 0 /\ last'.writes = {}
          /\ files' = files /\ folders' = folders]_vars

C18_Witness ==
  /\ last.pc = "done" /\ last.via = "command" /\ ~last.invoked
  /\ last.notices = <<NoticeOpen>>

(***************************************************************************)
(* One trigger event: either the event is still to come, or the watch      *)
(* handler has extracted a record whose note titles and whose filename     *)
(* begin with the name of the watched folder; the awaited steps of a       *)
(* handler are resumed sooner or later                                     *)
(***************************************************************************)
LoopDocs == Docs \cup {Doc(<<"transcripts", "/", "transcripts", ".md">>, "transcripts", "md")}

LoopTitles == {<<"transcripts">>, <<"transcripts", "_old">>, <<"n">>}
LoopRecords ==
  { Extraction(<<"s">>, notes, << <<"a">> >>) :
      notes \in Lists(LoopTitles \X {<<"c">>}, MaxNotes) }

InitLoop ==
  /\ folders \in {{}, {"Parsed_Notes"}, {dirs[i] : i \in 1..Len(dirs)}}
  /\ files \in {NoFiles} \cup
               (IF "Parsed_Notes" \in folders THEN {TasksPath :> <<BOX, "x">>} ELSE {})
  /\ apiKey \in Keys
  /\ last = IdleInv
  /\ \/ /\ inv = [p \in Procs |-> IdleInv]
        /\ runs = MaxRuns - 1
     \/ /\ apiKey # ""
        /\ folders = {dirs[i] : i \in 1..Len(dirs)}
        /\ \E data \in LoopRecords : \E filename \in {"f1", "transcripts"} :
             inv = [p \in Procs |->
                      IF p = "watch"
                      THEN [Extracted(data) EXCEPT !.via = "watch",
                                                   !.filename = filename]
                      ELSE IdleInv]
        /\ runs = MaxRuns

NextLoop ==
  \/ \E file \in LoopDocs : WatchCreate(file)
  \/ \E p \in Procs : Step(p)

\* the awaited steps of a handler other than the reading of a success body
Awaited(p) ==
  \/ ReadTranscript(p)
  \/ CheckExists(p)
  \/ MakeFolder(p)
  \/ Fetch(p)
  \/ ErrorJson(p)
  \/ CreateSummary(p)
  \/ CreateNote(p)
  \/ ReadTasks(p)
  \/ ModifyTasks(p)
  \/ CreateTasks(p)

\* weak fairness of ResponseJson(p), with its enabling condition, the
\* position json, written out
BodyArrives(p) == []<>(inv[p].pc # "json") \/ []<><<ResponseJson(p)>>_vars

\* every promise a handler awaits is settled and the handler resumed
SpecLoop ==
  /\ InitLoop /\ [][NextLoop]_vars
  /\ \A p \in Procs : WF_vars(Awaited(p)) /\ BodyArrives(p)

\* the create event of this document or folder passes the filter of the
\* watch callback (main.ts:72)
PassesFilter(text) == StartsWith(text, WatchedFolder)

\* every handler is idle
Quiescent == \A p \in Procs : inv[p].pc = "idle"

====
